---------------------------- MODULE Spec2Model ----------------------------
(***************************************************************************)
(* The background engine of rsshub (package aggregator), its feed store    *)
(* (package db) and its control protocol, as a state machine.              *)
(*                                                                         *)
(* Goroutines are processes: the tick consumer started by Start, one       *)
(* worker per done channel, one handler per accepted control connection.   *)
(* A step is one access to shared state (a field of Aggregator, a channel, *)
(* a store statement) together with the local computation that precedes    *)
(* it.  The Aggregator fields carry no lock, so steps of different         *)
(* goroutines interleave freely.                                           *)
(***************************************************************************)
EXTENDS Integers, Sequences, FiniteSets, TLC

(***************************************************************************)
(* Bounds of the model.                                                    *)
(***************************************************************************)
MaxConns == 2          \* control connections accepted during one run
MaxChans == 6          \* done channels made during one run
MaxFeeds == 2          \* feeds the store may hold
MaxItems == 2          \* entries of one fetched feed
MaxPeriod == 2         \* longest ticker period, in clock units
MaxProcs == 3          \* fetch commands started on one machine
MaxAcceptErrs == 2     \* failed Accept calls that are counted

Conns == 1..MaxConns
Procs == 1..MaxProcs
Chans == 1..MaxChans
FeedIds == 1..MaxFeeds
ZeroFeed == 0          \* the zero models.Feed a closed jobs channel yields
Links == {"a", "b"}

Min(a, b) == IF a <= b THEN a ELSE b

Range(s) == {s[i] : i \in 1..Len(s)}

Perms(S) == {p \in [1..Cardinality(S) -> S] : \A i, j \in 1..Cardinality(S) : p[i] = p[j] => i = j}

Remove(s, x) == SelectSeq(s, LAMBDA y : y # x)

(***************************************************************************)
(* Go slices of done channels: [arr, len], arr the backing array (its      *)
(* length is the capacity), NilChan in the slots never written.            *)
(***************************************************************************)
NilChan == 0

\* What may be at sockPath besides the socket of a process of Procs.
NoFile == 0
StaleFile == -1

EmptySlice == [arr |-> <<>>, len |-> 0]

Elems(s) == SubSeq(s.arr, 1, s.len)

\* append(s, x): in place while the capacity lasts, else into an array twice as long.
GoAppend(s, x) ==
    IF s.len < Len(s.arr)
    THEN [arr |-> [s.arr EXCEPT ![s.len + 1] = x], len |-> s.len + 1]
    ELSE LET newcap == IF Len(s.arr) = 0 THEN 1 ELSE 2 * Len(s.arr)
         IN [arr |-> [k \in 1..newcap |->
                        IF k <= s.len THEN s.arr[k] ELSE IF k = s.len + 1 THEN x ELSE NilChan],
             len |-> s.len + 1]

\* What a range loop that began on r sees after append(s, x): an append in place
\* writes the array the loop reads, a growing one leaves that array behind.
RangeAfterAppend(r, s, x) ==
    IF ~r.shared THEN r
    ELSE IF s.len < Len(s.arr) THEN [r EXCEPT !.arr[s.len + 1] = x]
    ELSE [r EXCEPT !.shared = FALSE]

RECURSIVE AppendAll(_, _)
AppendAll(s, xs) == IF xs = <<>> THEN s ELSE AppendAll(GoAppend(s, Head(xs)), Tail(xs))

(***************************************************************************)
(* strconv.Atoi and time.ParseDuration on the argument tokens the model    *)
(* sends.  A result is [ok, val]; one clock unit is one second.            *)
(***************************************************************************)
\* A conversion that reads a string without a number as 0.
AtoiLenient(s) ==
    CASE s = "1"  -> [ok |-> TRUE, val |-> 1]
      [] s = "2"  -> [ok |-> TRUE, val |-> 2]
      [] s = "3"  -> [ok |-> TRUE, val |-> 3]
      [] s = "-1" -> [ok |-> TRUE, val |-> -1]
      [] OTHER    -> [ok |-> TRUE, val |-> 0]

Atoi(s) ==
    CASE s = "0"  -> [ok |-> TRUE, val |-> 0]
      [] s = "1"  -> [ok |-> TRUE, val |-> 1]
      [] s = "2"  -> [ok |-> TRUE, val |-> 2]
      [] s = "3"  -> [ok |-> TRUE, val |-> 3]
      [] s = "-1" -> [ok |-> TRUE, val |-> -1]
      [] OTHER    -> [ok |-> FALSE, val |-> 0]

ParseDuration(s) ==
    CASE s = "0"   -> [ok |-> TRUE, val |-> 0]
      [] s = "0s"  -> [ok |-> TRUE, val |-> 0]
      [] s = "1s"  -> [ok |-> TRUE, val |-> 1]
      [] s = "2s"  -> [ok |-> TRUE, val |-> 2]
      [] s = "-1s" -> [ok |-> TRUE, val |-> -1]
      [] OTHER     -> [ok |-> FALSE, val |-> 0]

(***************************************************************************)
(* parsePubDate: the layouts are tried in the order of the source; the     *)
(* table says which layouts time.Parse accepts for each sample string.     *)
(***************************************************************************)
formats == <<"RFC1123", "RFC1123Z", "RFC822", "RFC822Z", "ISO8601Z", "ISO8601Offset">>

TimeParse(f, s) ==
    CASE s = "Tue, 20 Aug 2024 10:20:30 GMT"   -> f = "RFC1123"
      [] s = "Tue, 20 Aug 2024 10:20:30 -0000" -> f = "RFC1123Z"
      [] s = "20 Aug 24 10:20 GMT"             -> f = "RFC822"
      [] s = "2024-08-20T10:20:30Z"            -> f = "ISO8601Z"
      [] s = "2024-08-20T10:20:30+02:00"       -> f = "ISO8601Offset"
      [] OTHER                                 -> FALSE

parsePubDate(s) ==
    LET hits == {i \in 1..Len(formats) : TimeParse(formats[i], s)}
    IN IF hits = {} THEN [ok |-> FALSE, layout |-> "none"]
       ELSE [ok |-> TRUE, layout |-> formats[CHOOSE i \in hits : \A j \in hits : i <= j]]

PubDates == {"Tue, 20 Aug 2024 10:20:30 GMT", "yesterday"}

Entries == [link : Links, pubDate : PubDates]

\* The entry lists a fetch may return.
Contents == UNION {[1..k -> Entries] : k \in 0..MaxItems}

VARIABLES
    phase,       \* the main goroutine: "new", "running", "unbound" (Start returned the
                 \* Listen error), its place in Stop, "stopped"
    stopRange,   \* Stop's range over a.doneChans: [arr, len, i, shared], the slice as
                 \* read when the loop began, shared while a.doneChans has that array
    acceptErrs,  \* the Accept calls of controlLoop that returned an error
    inst,        \* the fetch commands on the machine, by process: place in handleFetch
    sockFile,    \* the file at sockPath: NoFile, StaleFile, or the process that bound it
    bound,       \* the processes whose listener is open
    workers,     \* a.workers
    interval,    \* a.interval
    doneChans,   \* a.doneChans: a Go slice, [arr, len] with arr the backing array
    closed,      \* the done channels that are closed
    jobs,        \* a.jobs: the buffered feeds
    jobsCap,     \* cap(a.jobs)
    jobsClosed,  \* a.jobs is closed
    ctxDone,     \* a.ctx is cancelled
    ticker,      \* a.ticker: [period, left, stopped, C], C the ticks buffered in ticker.C
    asyncTimer,  \* the build's timer channels keep a tick across Reset (Go before 1.23)
    listener,    \* a.listener: "nil", "open", "closed"
    sock,        \* the socket file exists
    panicked,    \* the panic that ended the process, or "none"
    tc,          \* the tick consumer goroutine
    wk,          \* the worker goroutines, by done channel
    conn,        \* the control connections and their handler goroutines
    feeds,       \* store: the feeds table's ids
    refreshed,   \* store: the feeds with updated_at set, oldest first
    articles,    \* store: rows of the articles table per (feed_id, link)
    remote,      \* what rss.FetchAndParse returns for each feed, when it succeeds
    sinceReset   \* clock units since the last ticker.Reset, -1 when there was none

vars == <<phase, stopRange, acceptErrs, inst, sockFile, bound, workers, interval, doneChans, closed, jobs, jobsCap, jobsClosed,
          ctxDone, ticker, asyncTimer, listener, sock, panicked, tc, wk, conn,
          feeds, refreshed, articles, remote, sinceReset>>

aggVars == <<workers, interval, doneChans, closed>>
jobVars == <<jobs, jobsCap, jobsClosed>>
lifeVars == <<phase, ctxDone, listener, sock, asyncTimer, stopRange, acceptErrs, inst,
              sockFile, bound>>
storeVars == <<feeds, refreshed, articles, remote>>

Alive == panicked = "none"

IdleWorker == [pc |-> "none", feed |-> ZeroFeed, items |-> <<>>, idx |-> 0, log |-> <<>>]
IdleTick == [pc |-> "none", feeds |-> <<>>, idx |-> 0, limit |-> 0, nulls |-> {}, order |-> <<>>]
NoRange == [arr |-> <<>>, len |-> 0, i |-> 0, shared |-> FALSE]
IdleConn == [pc |-> "idle", parts |-> <<>>, old |-> 0, n |-> 0, oldWorkers |-> 0, i |-> 0,
             reply |-> <<>>]

\* The workers that were started, and those that have not returned.
Started == {w \in Chans : wk[w].pc # "none"}
Running == {w \in Started : wk[w].pc # "exited"}

(***************************************************************************)
(* NewAggregator, with the configuration and the store it is given.        *)
(***************************************************************************)
NewAggregator(counts, periods, stores, contents, async) ==
    /\ phase = "new"
    /\ stopRange = NoRange
    /\ acceptErrs = 0
    /\ inst = [p \in Procs |-> "idle"]
    /\ sockFile = NoFile
    /\ bound = {}
    /\ workers \in counts
    /\ interval \in periods
    /\ doneChans = EmptySlice
    /\ closed = {}
    /\ jobs = <<>>
    /\ jobsCap = 0
    /\ jobsClosed = FALSE
    /\ ctxDone = FALSE
    /\ ticker = [period |-> 0, left |-> 0, stopped |-> TRUE, C |-> 0]
    /\ asyncTimer \in async
    /\ listener = "nil"
    /\ sock = FALSE
    /\ panicked = "none"
    /\ tc = IdleTick
    /\ wk = [w \in Chans |-> IdleWorker]
    /\ conn = [h \in Conns |-> IdleConn]
    /\ feeds \in stores
    /\ refreshed = <<>>
    /\ articles = [f \in FeedIds, l \in Links |-> 0]
    /\ remote \in [feeds -> contents]
    /\ sinceReset = -1

(***************************************************************************)
(* Aggregator.Start, when net.Listen succeeds.                             *)
(***************************************************************************)
Start ==
    /\ Alive
    /\ phase = "new"
    /\ phase' = "running"
    /\ ticker' = [period |-> interval, left |-> interval, stopped |-> FALSE, C |-> 0]
    /\ jobsCap' = workers
    /\ doneChans' = AppendAll(doneChans, [i \in 1..workers |-> i])
    /\ wk' = [w \in Chans |-> IF w <= workers THEN [IdleWorker EXCEPT !.pc = "select"] ELSE wk[w]]
    /\ tc' = [IdleTick EXCEPT !.pc = "select"]
    /\ listener' = "open"
    /\ sock' = TRUE
    /\ UNCHANGED <<workers, interval, closed, jobs, jobsClosed, ctxDone, asyncTimer,
                   panicked, conn, storeVars, sinceReset, stopRange, acceptErrs, inst,
                   sockFile, bound>>

(***************************************************************************)
(* One clock unit passes.  A running ticker whose period has elapsed sends *)
(* a tick on ticker.C, which buffers one tick and drops the rest.          *)
(***************************************************************************)
TimePasses ==
    /\ Alive
    /\ phase = "running"
    /\ ~ticker.stopped
    /\ ticker' = IF ticker.left > 1
                 THEN [ticker EXCEPT !.left = ticker.left - 1]
                 ELSE [ticker EXCEPT !.left = ticker.period, !.C = 1]
    /\ sinceReset' = IF sinceReset = -1 THEN -1 ELSE Min(sinceReset + 1, MaxPeriod)
    /\ UNCHANGED <<aggVars, jobVars, lifeVars, panicked, tc, wk, conn, storeVars>>

\* The same statement with ORDER BY updated_at ASC NULLS LAST.
GetOutdatedFeedsNullsLast(limit) ==
    LET nulls == feeds \ Range(refreshed)
    IN {SubSeq(refreshed \o p, 1, Min(limit, Cardinality(feeds))) : p \in Perms(nulls)}

(***************************************************************************)
(* DB.GetOutdatedFeeds: ORDER BY updated_at ASC NULLS FIRST LIMIT $1.      *)
(* The order among the rows with updated_at NULL is the store's choice:    *)
(* the operator gives every result the statement may return.               *)
(***************************************************************************)
GetOutdatedFeeds(limit) ==
    LET nulls == feeds \ Range(refreshed)
    IN {SubSeq(p \o refreshed, 1, Min(limit, Cardinality(feeds))) : p \in Perms(nulls)}

(***************************************************************************)
(* The tick consumer (the goroutine of Start).                             *)
(***************************************************************************)
\* A tick consumer that returns when its query fails.
TickQueryFailureFatal ==
    /\ Alive
    /\ tc.pc = "select"
    /\ ticker.C = 1
    /\ ticker' = [ticker EXCEPT !.C = 0]
    /\ \/ tc' = [tc EXCEPT !.pc = "exited"]
       \/ \E fs \in GetOutdatedFeeds(workers) :
             tc' = IF fs = <<>> THEN tc
                   ELSE [pc |-> "enqueue", feeds |-> fs, idx |-> 1, limit |-> workers,
                         nulls |-> feeds \ Range(refreshed), order |-> refreshed]
    /\ UNCHANGED <<aggVars, jobVars, lifeVars, panicked, wk, conn, storeVars, sinceReset>>

\* case <-a.ticker.C: the query of this tick.  With no feed to enqueue (the query
\* failed, or returned no row) the loop is back at its select.
TickQuery ==
    /\ Alive
    /\ tc.pc = "select"
    /\ ticker.C = 1
    /\ ticker' = [ticker EXCEPT !.C = 0]
    /\ \/ tc' = tc      \* the store query fails: logged, continue
       \/ \E fs \in GetOutdatedFeeds(workers) :
             tc' = IF fs = <<>> THEN tc
                   ELSE [pc |-> "enqueue", feeds |-> fs, idx |-> 1, limit |-> workers,
                         nulls |-> feeds \ Range(refreshed), order |-> refreshed]
    /\ UNCHANGED <<aggVars, jobVars, lifeVars, panicked, wk, conn, storeVars, sinceReset>>

\* a.jobs <- feed, for the next feed of the result; after the last one the loop is
\* back at its select.
TickEnqueue ==
    /\ Alive
    /\ tc.pc = "enqueue"
    /\ Len(jobs) < jobsCap \/ jobsClosed
    /\ IF jobsClosed
       THEN /\ panicked' = "send on closed channel"
            /\ UNCHANGED <<jobs, tc>>
       ELSE /\ jobs' = Append(jobs, tc.feeds[tc.idx])
            /\ tc' = IF tc.idx < Len(tc.feeds) THEN [tc EXCEPT !.idx = tc.idx + 1]
                     ELSE [IdleTick EXCEPT !.pc = "select"]
            /\ UNCHANGED panicked
    /\ UNCHANGED <<aggVars, jobsCap, jobsClosed, lifeVars, ticker, wk, conn,
                   storeVars, sinceReset>>

\* case <-a.ctx.Done(): return
TickExit ==
    /\ Alive
    /\ tc.pc = "select"
    /\ ctxDone
    /\ tc' = [tc EXCEPT !.pc = "exited"]
    /\ UNCHANGED <<aggVars, jobVars, lifeVars, ticker, panicked, wk, conn, storeVars,
                   sinceReset>>

(***************************************************************************)
(* The store statements of a worker.                                       *)
(***************************************************************************)
ArticleExists(f, l) == articles[f, l] > 0

\* The same statement on a table without articles_feed_link_idx.
InsertArticleNoIndex(f, l) ==
    IF f \notin feeds
    THEN [ok |-> FALSE, rows |-> articles]
    ELSE [ok |-> TRUE, rows |-> [articles EXCEPT ![f, l] = articles[f, l] + 1]]

\* INSERT INTO articles: refused by the foreign key when the feed is gone and by
\* articles_feed_link_idx when the pair is stored.
InsertArticle(f, l) ==
    IF f \notin feeds \/ articles[f, l] > 0
    THEN [ok |-> FALSE, rows |-> articles]
    ELSE [ok |-> TRUE, rows |-> [articles EXCEPT ![f, l] = articles[f, l] + 1]]

\* An update that leaves updated_at as it is.
UpdateFeedNotStamped(f) == refreshed

\* UPDATE feeds SET updated_at = CURRENT_TIMESTAMP WHERE id = $1
UpdateFeedUpdatedAt(f) ==
    IF f \in feeds THEN Append(Remove(refreshed, f), f) ELSE refreshed

(***************************************************************************)
(* Aggregator.worker, the goroutine of done channel w.                     *)
(***************************************************************************)
\* case feed := <-a.jobs: a buffered feed, or the zero Feed of a closed and
\* drained channel.
WorkerClaim(w) ==
    /\ Alive
    /\ wk[w].pc = "select"
    /\ Len(jobs) > 0 \/ jobsClosed
    /\ jobs' = IF Len(jobs) > 0 THEN Tail(jobs) ELSE jobs
    /\ wk' = [wk EXCEPT ![w] = [IdleWorker EXCEPT
                 !.pc = "fetch", !.feed = IF Len(jobs) > 0 THEN Head(jobs) ELSE ZeroFeed]]
    /\ UNCHANGED <<aggVars, jobsCap, jobsClosed, lifeVars, ticker, panicked, tc, conn,
                   storeVars, sinceReset>>

\* A failed fetch that stamps the feed all the same.
WorkerFetchFailStamps(w) ==
    /\ Alive
    /\ wk[w].pc = "fetch"
    /\ wk[w].feed # ZeroFeed
    /\ refreshed' = UpdateFeedUpdatedAt(wk[w].feed)
    /\ wk' = [wk EXCEPT ![w].pc = "failed",
                        ![w].log = <<"Error fetching/parsing feed">>]
    /\ UNCHANGED <<aggVars, jobVars, lifeVars, ticker, panicked, tc, conn, feeds,
                   articles, remote, sinceReset>>

\* rss.FetchAndParse fails: the error is logged.
WorkerFetchFail(w) ==
    /\ Alive
    /\ wk[w].pc = "fetch"
    /\ wk' = [wk EXCEPT ![w].pc = "failed",
                        ![w].log = <<"Error fetching/parsing feed">>]
    /\ UNCHANGED <<aggVars, jobVars, lifeVars, ticker, panicked, tc, conn, storeVars,
                   sinceReset>>

\* After the logged error of a fetch or of the closing update: back to the select.
WorkerContinue(w) ==
    /\ Alive
    /\ wk[w].pc = "failed"
    /\ wk' = [wk EXCEPT ![w] = [IdleWorker EXCEPT !.pc = "select"]]
    /\ UNCHANGED <<aggVars, jobVars, lifeVars, ticker, panicked, tc, conn, storeVars,
                   sinceReset>>

\* rss.FetchAndParse succeeds.
WorkerFetchOk(w) ==
    /\ Alive
    /\ wk[w].pc = "fetch"
    /\ wk[w].feed # ZeroFeed
    /\ wk' = [wk EXCEPT ![w].pc = "item", ![w].items = remote[wk[w].feed], ![w].idx = 1]
    /\ UNCHANGED <<aggVars, jobVars, lifeVars, ticker, panicked, tc, conn, storeVars,
                   sinceReset>>

\* The log line of one entry, and the worker after it.
Logged(w, line) ==
    [wk EXCEPT ![w].pc = "item", ![w].idx = wk[w].idx + 1, ![w].log = Append(wk[w].log, line)]

\* One entry up to database.ArticleExists.
WorkerItem(w) ==
    /\ Alive
    /\ wk[w].pc = "item"
    /\ wk[w].idx <= Len(wk[w].items)
    /\ LET item == wk[w].items[wk[w].idx]
       IN IF ~parsePubDate(item.pubDate).ok
          THEN wk' = Logged(w, "Error parsing pubDate")
          ELSE \/ wk' = Logged(w, "Error checking if article exists")
               \/ IF ArticleExists(wk[w].feed, item.link)
                  THEN wk' = Logged(w, "Article already exists")
                  ELSE wk' = [wk EXCEPT ![w].pc = "insert"]
    /\ UNCHANGED <<aggVars, jobVars, lifeVars, ticker, panicked, tc, conn, storeVars,
                   sinceReset>>

\* database.InsertArticle for the entry: the statement runs, or the store fails it.
WorkerInsert(w) ==
    /\ Alive
    /\ wk[w].pc = "insert"
    /\ LET r == InsertArticle(wk[w].feed, wk[w].items[wk[w].idx].link)
       IN \/ /\ articles' = r.rows
             /\ wk' = Logged(w, IF r.ok THEN "Inserted article" ELSE "Error inserting article")
          \/ /\ articles' = articles
             /\ wk' = Logged(w, "Error inserting article")
    /\ UNCHANGED <<aggVars, jobVars, lifeVars, ticker, panicked, tc, conn, feeds,
                   refreshed, remote, sinceReset>>

\* database.UpdateFeedUpdatedAt after the last entry.
WorkerStamp(w) ==
    /\ Alive
    /\ wk[w].pc = "item"
    /\ wk[w].idx > Len(wk[w].items)
    /\ refreshed' = UpdateFeedUpdatedAt(wk[w].feed)
    /\ wk' = [wk EXCEPT ![w] = [IdleWorker EXCEPT !.pc = "select"]]
    /\ UNCHANGED <<aggVars, jobVars, lifeVars, ticker, panicked, tc, conn, feeds,
                   articles, remote, sinceReset>>

\* database.UpdateFeedUpdatedAt is failed by the store: the error is logged.
WorkerStampFail(w) ==
    /\ Alive
    /\ wk[w].pc = "item"
    /\ wk[w].idx > Len(wk[w].items)
    /\ wk' = [wk EXCEPT ![w].pc = "failed",
                        ![w].log = Append(wk[w].log, "Error updating feed")]
    /\ UNCHANGED <<aggVars, jobVars, lifeVars, ticker, panicked, tc, conn, storeVars,
                   sinceReset>>

\* case <-done, case <-a.ctx.Done(): return; the deferred a.wg.Done().
WorkerExit(w) ==
    /\ Alive
    /\ wk[w].pc = "select"
    /\ w \in closed \/ ctxDone
    /\ wk' = [wk EXCEPT ![w].pc = "exited"]
    /\ UNCHANGED <<aggVars, jobVars, lifeVars, ticker, panicked, tc, conn, storeVars,
                   sinceReset>>

(***************************************************************************)
(* Aggregator.handleControl, the goroutine of connection h, and the        *)
(* Aggregator.Resize it calls.                                             *)
(***************************************************************************)
Replied(c, text) == [c EXCEPT !.pc = "replied", !.reply = text]

InvalidSizeBelowZero(newWorkers) == newWorkers < 0

\* Resize: if newWorkers < 1
InvalidSize(newWorkers) == newWorkers < 1

\* Resize returned nil: the reply with the old and the new count.
Resized(c) == Replied(c, <<"Number of workers changed", c.old, c.n>>)

\* A handler that answers what it does not understand.
HandleLineAnswersAll(c, parts) ==
    IF Len(parts) < 2 THEN Replied(c, <<"Unknown command">>)
    ELSE IF parts[1] = "set-interval" THEN
        LET dur == ParseDuration(parts[2])
        IN IF ~dur.ok THEN Replied(c, <<"Invalid duration">>)
           ELSE [c EXCEPT !.pc = "interval", !.old = interval, !.n = dur.val]
    ELSE IF parts[1] = "set-workers" THEN
        LET count == Atoi(parts[2])
        IN IF ~count.ok THEN Replied(c, <<"Invalid count">>)
           ELSE IF InvalidSize(count.val)
                THEN Replied(c, <<"Error resizing workers: workers must be at least 1">>)
                ELSE [c EXCEPT !.pc = "resize", !.old = workers, !.n = count.val]
    ELSE Replied(c, <<"Unknown command">>)

\* The handler from conn.Read to its first access to the Aggregator, for the
\* line whose strings.Split is parts.
HandleLine(c, parts) ==
    IF Len(parts) < 2 THEN [c EXCEPT !.pc = "closed"]
    ELSE IF parts[1] = "set-interval" THEN
        LET dur == ParseDuration(parts[2])
        IN IF ~dur.ok THEN Replied(c, <<"Invalid duration">>)
           ELSE [c EXCEPT !.pc = "interval", !.old = interval, !.n = dur.val]
    ELSE IF parts[1] = "set-workers" THEN
        LET count == Atoi(parts[2])
        IN IF ~count.ok THEN Replied(c, <<"Invalid count">>)
           ELSE IF InvalidSize(count.val)
                THEN Replied(c, <<"Error resizing workers: workers must be at least 1">>)
                ELSE [c EXCEPT !.pc = "resize", !.old = workers, !.n = count.val]
    ELSE [c EXCEPT !.pc = "closed"]

\* controlLoop accepts connection h and its handler reads the line.
HandlerRead(h, lines) ==
    /\ Alive
    /\ listener = "open"
    /\ conn[h].pc = "idle"
    /\ h > 1 => conn[h - 1].pc # "idle"
    /\ \E parts \in lines :
          conn' = [conn EXCEPT ![h] = HandleLine([conn[h] EXCEPT !.parts = parts], parts)]
    /\ UNCHANGED <<aggVars, jobVars, lifeVars, ticker, panicked, tc, wk, storeVars, sinceReset>>

\* a.interval = dur
SetInterval(h) ==
    /\ Alive
    /\ conn[h].pc = "interval"
    /\ interval' = conn[h].n
    /\ conn' = [conn EXCEPT ![h].pc = "reset"]
    /\ UNCHANGED <<workers, doneChans, closed, jobVars, lifeVars, ticker, panicked, tc, wk,
                   storeVars, sinceReset>>

\* a.ticker.Reset(dur), which panics for a non-positive duration, and the reply.
TickerReset(h) ==
    /\ Alive
    /\ conn[h].pc = "reset"
    /\ IF conn[h].n <= 0
       THEN /\ panicked' = "non-positive interval for Ticker.Reset"
            /\ UNCHANGED <<ticker, conn, sinceReset>>
       ELSE /\ ticker' = [period |-> conn[h].n, left |-> conn[h].n, stopped |-> FALSE,
                          C |-> IF asyncTimer THEN ticker.C ELSE 0]
            /\ sinceReset' = 0
            /\ conn' = [conn EXCEPT ![h] = Replied(conn[h],
                           <<"Interval of fetching feeds changed", conn[h].old, conn[h].n>>)]
            /\ UNCHANGED panicked
    /\ UNCHANGED <<aggVars, jobVars, lifeVars, tc, wk, storeVars>>

\* Resize: oldWorkers := a.workers
ResizeRead(h) ==
    /\ Alive
    /\ conn[h].pc = "resize"
    /\ conn' = [conn EXCEPT ![h].pc = "write", ![h].oldWorkers = workers]
    /\ UNCHANGED <<aggVars, jobVars, lifeVars, ticker, panicked, tc, wk, storeVars, sinceReset>>

\* Resize: a.workers = newWorkers, and the branch taken.
ResizeWrite(h) ==
    /\ Alive
    /\ conn[h].pc = "write"
    /\ workers' = conn[h].n
    /\ LET c == conn[h]
       IN conn' = [conn EXCEPT ![h] =
                     IF c.n > c.oldWorkers THEN [c EXCEPT !.pc = "grow", !.i = c.oldWorkers]
                     ELSE IF c.n < c.oldWorkers THEN [c EXCEPT !.pc = "shrink", !.i = c.n]
                     ELSE Resized(c)]
    /\ UNCHANGED <<interval, doneChans, closed, jobVars, lifeVars, ticker, panicked, tc, wk,
                   storeVars, sinceReset>>

\* Resize: one round of the growing loop: a new done channel, appended, and its worker.
ResizeGrow(h) ==
    /\ Alive
    /\ conn[h].pc = "grow"
    /\ LET done == Cardinality(Started) + 1
       IN /\ doneChans' = GoAppend(doneChans, done)
          /\ stopRange' = RangeAfterAppend(stopRange, doneChans, done)
          /\ wk' = [wk EXCEPT ![done] = [IdleWorker EXCEPT !.pc = "select"]]
    /\ conn' = [conn EXCEPT ![h] = IF conn[h].i + 1 < conn[h].n
                                    THEN [conn[h] EXCEPT !.i = conn[h].i + 1]
                                    ELSE Resized(conn[h])]
    /\ UNCHANGED <<workers, interval, closed, jobVars, phase, ctxDone, listener, sock,
                   asyncTimer, acceptErrs, inst, sockFile, bound, ticker, panicked, tc,
                   storeVars, sinceReset>>

\* Resize: one round of the shrinking loop: close(a.doneChans[i]).
ResizeShrink(h) ==
    /\ Alive
    /\ conn[h].pc = "shrink"
    /\ LET i == conn[h].i + 1     \* the slice index i, counted from 1
       IN IF i > doneChans.len
          THEN /\ panicked' = "index out of range"
               /\ UNCHANGED <<closed, conn>>
          ELSE IF doneChans.arr[i] \in closed
          THEN /\ panicked' = "close of closed channel"
               /\ UNCHANGED <<closed, conn>>
          ELSE /\ closed' = closed \cup {doneChans.arr[i]}
               /\ conn' = [conn EXCEPT ![h].i = i,
                                       ![h].pc = IF i < conn[h].oldWorkers THEN "shrink"
                                                 ELSE "truncate"]
               /\ UNCHANGED panicked
    /\ UNCHANGED <<workers, interval, doneChans, jobVars, lifeVars, ticker, tc, wk, storeVars,
                   sinceReset>>

TruncatedNot(s, n) == s

\* s[:n], for n within the capacity
Truncated(s, n) == [s EXCEPT !.len = n]

\* Resize: a.doneChans = a.doneChans[:newWorkers]
ResizeTruncate(h) ==
    /\ Alive
    /\ conn[h].pc = "truncate"
    /\ IF conn[h].n > Len(doneChans.arr)
       THEN /\ panicked' = "slice bounds out of range"
            /\ UNCHANGED <<doneChans, conn>>
       ELSE /\ doneChans' = Truncated(doneChans, conn[h].n)
            /\ conn' = [conn EXCEPT ![h] = Resized(conn[h])]
            /\ UNCHANGED panicked
    /\ UNCHANGED <<workers, interval, closed, jobVars, lifeVars, ticker, tc, wk, storeVars,
                   sinceReset>>

\* The deferred conn.Close().
HandlerClose(h) ==
    /\ Alive
    /\ conn[h].pc = "replied"
    /\ conn' = [conn EXCEPT ![h] = [IdleConn EXCEPT !.pc = "closed"]]
    /\ UNCHANGED <<aggVars, jobVars, lifeVars, ticker, panicked, tc, wk, storeVars, sinceReset>>

(***************************************************************************)
(* Start, when net.Listen fails: the error is returned after the context,  *)
(* the ticker, the queue, the workers and the tick consumer were made, and *)
(* a.listener is left nil.                                                 *)
(***************************************************************************)
StartUnbound ==
    /\ Alive
    /\ phase = "new"
    /\ phase' = "unbound"
    /\ ticker' = [period |-> interval, left |-> interval, stopped |-> FALSE, C |-> 0]
    /\ jobsCap' = workers
    /\ doneChans' = AppendAll(doneChans, [i \in 1..workers |-> i])
    /\ wk' = [w \in Chans |-> IF w <= workers THEN [IdleWorker EXCEPT !.pc = "select"] ELSE wk[w]]
    /\ tc' = [IdleTick EXCEPT !.pc = "select"]
    /\ UNCHANGED <<workers, interval, closed, jobs, jobsClosed, ctxDone, asyncTimer,
                   listener, sock, panicked, conn, storeVars, sinceReset, stopRange,
                   acceptErrs, inst, sockFile, bound>>

(***************************************************************************)
(* Aggregator.Stop, statement by statement.                                *)
(***************************************************************************)
\* a.cancel()
StopCancel ==
    /\ Alive
    /\ phase \in {"running", "unbound"}
    /\ phase' = "stop_ticker"
    /\ ctxDone' = TRUE
    /\ UNCHANGED <<aggVars, jobVars, listener, sock, asyncTimer, stopRange, acceptErrs, inst,
                   sockFile, bound, ticker, panicked, tc, wk, conn, storeVars, sinceReset>>

\* a.ticker.Stop(): no further tick is sent; a tick already in ticker.C stays
\* there when the build's timer channels are buffered.
StopTicker ==
    /\ Alive
    /\ phase = "stop_ticker"
    /\ phase' = "stop_jobs"
    /\ ticker' = [ticker EXCEPT !.stopped = TRUE, !.C = IF asyncTimer THEN ticker.C ELSE 0]
    /\ UNCHANGED <<aggVars, jobVars, ctxDone, listener, sock, asyncTimer, stopRange,
                   acceptErrs, inst, sockFile, bound, panicked, tc, wk, conn, storeVars,
                   sinceReset>>

\* close(a.jobs)
StopCloseJobs ==
    /\ Alive
    /\ phase = "stop_jobs"
    /\ phase' = "stop_range"
    /\ jobsClosed' = TRUE
    /\ UNCHANGED <<aggVars, jobs, jobsCap, ctxDone, listener, sock, asyncTimer, stopRange,
                   acceptErrs, inst, sockFile, bound, ticker, panicked, tc, wk, conn,
                   storeVars, sinceReset>>

\* for _, done := range a.doneChans: the slice is read once, when the loop begins.
StopRange ==
    /\ Alive
    /\ phase = "stop_range"
    /\ phase' = IF doneChans.len = 0 THEN "stop_wait" ELSE "stop_dones"
    /\ stopRange' = [arr |-> doneChans.arr, len |-> doneChans.len, i |-> 0, shared |-> TRUE]
    /\ UNCHANGED <<aggVars, jobVars, ctxDone, listener, sock, asyncTimer, acceptErrs, inst,
                   sockFile, bound, ticker, panicked, tc, wk, conn, storeVars, sinceReset>>

\* close(done), for the next element of the range.
StopCloseDone ==
    /\ Alive
    /\ phase = "stop_dones"
    /\ LET i == stopRange.i + 1
           done == stopRange.arr[i]
       IN IF done \in closed
          THEN /\ panicked' = "close of closed channel"
               /\ UNCHANGED <<closed, stopRange, phase>>
          ELSE /\ closed' = closed \cup {done}
               /\ stopRange' = [stopRange EXCEPT !.i = i]
               /\ phase' = IF i < stopRange.len THEN "stop_dones" ELSE "stop_wait"
               /\ UNCHANGED panicked
    /\ UNCHANGED <<workers, interval, doneChans, jobVars, ctxDone, listener, sock,
                   asyncTimer, acceptErrs, inst, sockFile, bound, ticker, tc, wk, conn,
                   storeVars, sinceReset>>

\* a.wg.Wait() returns: every worker has run its deferred a.wg.Done().
StopWait ==
    /\ Alive
    /\ phase = "stop_wait"
    /\ Running = {}
    /\ phase' = "stop_listener"
    /\ UNCHANGED <<aggVars, jobVars, ctxDone, listener, sock, asyncTimer, stopRange,
                   acceptErrs, inst, sockFile, bound, ticker, panicked, tc, wk, conn,
                   storeVars, sinceReset>>

\* a.listener.Close(): a method call on a nil interface when Listen had failed; on
\* a Unix listener it also unlinks the socket file.
StopListener ==
    /\ Alive
    /\ phase = "stop_listener"
    /\ IF listener = "nil"
       THEN /\ panicked' = "nil pointer dereference"
            /\ UNCHANGED <<phase, listener, sock>>
       ELSE /\ listener' = "closed"
            /\ sock' = FALSE
            /\ phase' = "stop_remove"
            /\ UNCHANGED panicked
    /\ UNCHANGED <<aggVars, jobVars, ctxDone, asyncTimer, stopRange, acceptErrs, inst,
                   sockFile, bound, ticker, tc, wk, conn, storeVars, sinceReset>>

\* os.Remove(a.sockPath); return nil
StopRemove ==
    /\ Alive
    /\ phase = "stop_remove"
    /\ phase' = "stopped"
    /\ sock' = FALSE
    /\ UNCHANGED <<aggVars, jobVars, ctxDone, listener, asyncTimer, stopRange, acceptErrs,
                   inst, sockFile, bound, ticker, panicked, tc, wk, conn, storeVars,
                   sinceReset>>

Stop ==
    \/ StopCancel
    \/ StopTicker
    \/ StopCloseJobs
    \/ StopRange
    \/ StopCloseDone
    \/ StopWait
    \/ StopListener
    \/ StopRemove

(***************************************************************************)
(* Aggregator.controlLoop on a closed listener: Accept returns an error    *)
(* and the loop continues with the next Accept.                            *)
(***************************************************************************)
AcceptError ==
    /\ Alive
    /\ listener = "closed"
    /\ acceptErrs < MaxAcceptErrs
    /\ acceptErrs' = acceptErrs + 1
    /\ UNCHANGED <<aggVars, jobVars, phase, ctxDone, listener, sock, asyncTimer, stopRange,
                   inst, sockFile, bound, ticker, panicked, tc, wk, conn, storeVars,
                   sinceReset>>

(***************************************************************************)
(* Spec: the engine under set-workers commands on concurrent connections.  *)
(* The store holds one feed; every fetch succeeds and returns no entry,    *)
(* and the store serves every update.                                      *)
(***************************************************************************)
ResizeLines ==
    {<<"set-workers", "1">>, <<"set-workers", "2">>, <<"set-workers", "3">>,
     <<"set-workers", "0">>, <<"set-workers", "-1">>}

Init == NewAggregator({2}, {1}, {{1}}, {<<>>}, {FALSE})

Scheduler ==
    \/ TimePasses
    \/ TickQuery
    \/ TickEnqueue

Resize(h) ==
    \/ ResizeRead(h)
    \/ ResizeWrite(h)
    \/ ResizeGrow(h)
    \/ ResizeShrink(h)
    \/ ResizeTruncate(h)

Next ==
    \/ Start
    \/ Scheduler
    \/ \E w \in Chans :
          \/ WorkerClaim(w)
          \/ WorkerFetchOk(w)
          \/ WorkerStamp(w)
          \/ WorkerExit(w)
    \/ \E h \in Conns :
          \/ HandlerRead(h, ResizeLines)
          \/ Resize(h)
          \/ HandlerClose(h)

Spec == Init /\ [][Next]_vars

(***************************************************************************)
(* SpecSeq: as Spec, with the commands sent one after the other (a client  *)
(* waits for its reply), and with the scheduling the Go runtime gives: a   *)
(* goroutine that can step does, and a select whose stop case is ready     *)
(* again and again takes it in the end.                                    *)
(***************************************************************************)
SeqLines == {<<"set-workers", "1">>, <<"set-workers", "2">>, <<"set-workers", "3">>}

HandlerReadSeq(h) ==
    /\ \A g \in Conns : conn[g].pc \in {"idle", "closed"}
    /\ HandlerRead(h, SeqLines)

WorkerTask(w) ==
    \/ WorkerClaim(w)
    \/ WorkerFetchOk(w)
    \/ WorkerStamp(w)

NextSeq ==
    \/ Start
    \/ Scheduler
    \/ \E w \in Chans :
          \/ WorkerTask(w)
          \/ WorkerExit(w)
    \/ \E h \in Conns :
          \/ HandlerReadSeq(h)
          \/ Resize(h)
          \/ HandlerClose(h)

SpecSeq ==
    /\ Init
    /\ [][NextSeq]_vars
    /\ WF_vars(Start)
    /\ \A w \in Chans : WF_vars(WorkerTask(w)) /\ SF_vars(WorkerExit(w))
    /\ \A h \in Conns : WF_vars(Resize(h) \/ HandlerClose(h))

(***************************************************************************)
(* SpecTicks: the scheduler over stores of up to MaxFeeds feeds, with one  *)
(* connection that changes the worker count.                               *)
(***************************************************************************)
TickLines == {<<"set-workers", "1">>, <<"set-workers", "2">>}

InitTicks == NewAggregator({1, 2}, {1}, {1..n : n \in 0..MaxFeeds}, {<<>>}, {FALSE})

NextTicks ==
    \/ Start
    \/ Scheduler
    \/ \E w \in Chans :
          \/ WorkerTask(w)
          \/ WorkerExit(w)
    \/ HandlerRead(1, TickLines)
    \/ Resize(1)
    \/ HandlerClose(1)

SpecTicks == InitTicks /\ [][NextTicks]_vars

(***************************************************************************)
(* SpecFeeds: two workers and one feed, over every entry list of up to     *)
(* MaxItems entries; fetches and store statements may fail.                *)
(***************************************************************************)
InitFeeds == NewAggregator({2}, {1}, {{1}}, Contents, {FALSE})

NextFeeds ==
    \/ Start
    \/ Scheduler
    \/ \E w \in Chans :
          \/ WorkerClaim(w)
          \/ WorkerFetchFail(w)
          \/ WorkerContinue(w)
          \/ WorkerFetchOk(w)
          \/ WorkerItem(w)
          \/ WorkerInsert(w)
          \/ WorkerStamp(w)
          \/ WorkerStampFail(w)

SpecFeeds == InitFeeds /\ [][NextFeeds]_vars

(***************************************************************************)
(* SpecTimer: one worker, one feed, and set-interval commands, under both  *)
(* timer-channel behaviours a Go toolchain may give the build.             *)
(***************************************************************************)
TimerLines == {<<"set-interval", "1s">>, <<"set-interval", "2s">>, <<"set-interval", "0s">>}

InitTimer == NewAggregator({1}, 1..MaxPeriod, {{1}}, {<<>>}, BOOLEAN)

NextTimer ==
    \/ Start
    \/ Scheduler
    \/ \E w \in Chans : WorkerTask(w)
    \/ \E h \in Conns :
          \/ HandlerRead(h, TimerLines)
          \/ SetInterval(h)
          \/ TickerReset(h)
          \/ HandlerClose(h)

SpecTimer == InitTimer /\ [][NextTimer]_vars

(***************************************************************************)
(* The claims about Resize.                                                *)
(***************************************************************************)
\* Inside Resize: past its size check, not yet returned.
Resizing(h) == conn[h].pc \in {"resize", "write", "grow", "shrink", "truncate"}

\* Between the first write of Resize to the pool state (a.workers) and its last.
MidWrite(h) == conn[h].pc \in {"grow", "shrink", "truncate"}

\* The step of the tick consumer that reads a.workers for its query.
TickReads == tc.pc = "select" /\ ticker.C = 1 /\ ticker'.C = 0 /\ conn' = conn

\* The done channels in a.doneChans, and the running workers whose done channel is closed.
Tracked == Range(Elems(doneChans))
Draining == Running \cap closed

MidTask(w) == wk[w].pc \in {"fetch", "failed", "item", "insert"}

RacePanics == {"index out of range", "close of closed channel", "slice bounds out of range"}

\* C1: access to the pool state is mutually exclusive: at most one Resize executes
\* at any instant, and no tick reads the worker count while a Resize is between its
\* first and its last write to the pool state.
C1_MutualExclusion ==
    /\ [](Cardinality({h \in Conns : Resizing(h)}) <= 1)
    /\ [][TickReads => \A h \in Conns : ~MidWrite(h)]_vars

\* C2: a set-workers count below 1 is answered with the size-validation error, never
\* enters the body of Resize, and leaves the worker count, the tracked done channels,
\* the raised stop signals and the running workers as they were.
C2_InvalidSizeRejected ==
    /\ [](\A h \in Conns : Resizing(h) => conn[h].n >= 1)
    /\ [][\A h \in Conns :
            (/\ conn[h].pc = "idle"
             /\ conn'[h].pc # "idle"
             /\ conn'[h].parts \in {<<"set-workers", "0">>, <<"set-workers", "-1">>})
            => /\ conn'[h].pc = "replied"
               /\ conn'[h].reply = <<"Error resizing workers: workers must be at least 1">>
               /\ workers' = workers
               /\ doneChans' = doneChans
               /\ closed' = closed
               /\ wk' = wk]_vars

\* C2 witness: Resize(0) was refused on an engine with running workers.
C2_Witness ==
    \E h \in Conns :
        /\ conn[h].pc = "replied"
        /\ conn[h].parts = <<"set-workers", "0">>
        /\ conn[h].reply = <<"Error resizing workers: workers must be at least 1">>
        /\ Cardinality(Running) >= 2

\* Resize(k) from size c has returned on connection h, growing.
GrowReturned(h) ==
    /\ conn[h].pc = "replied"
    /\ conn[h].reply[1] = "Number of workers changed"
    /\ conn[h].n > conn[h].oldWorkers

\* C3 as stated, for k > c: when a growing Resize(k) has returned, exactly k workers
\* are active.
C3_GrowGivesExactlyK ==
    \A h \in Conns : GrowReturned(h) => Cardinality(Running) = conn[h].n

\* C3 as amended: between Resize calls exactly k = a.workers workers are tracked,
\* running and not signalled, the other running workers being removed ones that
\* still drain; no step of a handler touches a started worker, and no worker exits
\* mid-task; in the end the running workers are exactly the k of the last Resize.
C3_ResizeGivesK ==
    /\ []((phase = "running" /\ \A h \in Conns : ~Resizing(h)) =>
             /\ doneChans.len = workers
             /\ Cardinality(Tracked) = workers
             /\ Tracked = Running \ closed)
    /\ [][\A w \in Chans :
            /\ (wk[w].pc # "none" /\ conn' # conn) => wk'[w] = wk[w]
            /\ MidTask(w) => wk'[w].pc # "exited"]_vars
    /\ <>[](phase = "running" /\ Cardinality(Running) = workers)

\* C3 witness: a growing Resize has returned while a worker removed by an earlier
\* shrink is still mid-task.
C3_Witness ==
    \E h \in Conns :
        /\ GrowReturned(h)
        /\ Cardinality(Running \ closed) = conn[h].n
        /\ \E w \in Draining : MidTask(w)

\* C4: a shrinking Resize(k) from size c returns with exactly k tracked done
\* channels, none of them closed, having closed the c - k most recently added ones;
\* and no shrink ends in a panic.
C4_ShrinkFrame ==
    /\ [](panicked \notin RacePanics)
    /\ [][\A h \in Conns :
            (conn[h].pc = "truncate" /\ conn'[h].pc = "replied")
            => /\ doneChans'.len = conn[h].n
               /\ \A i \in 1..conn[h].n : doneChans'.arr[i] \notin closed'
               /\ \A i \in (conn[h].n + 1)..conn[h].oldWorkers : doneChans'.arr[i] \in closed'
               /\ jobs' = jobs /\ jobsCap' = jobsCap
               /\ \A w \in Chans : MidTask(w) => wk'[w] = wk[w]]_vars

(***************************************************************************)
(* The claims about the scheduler's tick.                                  *)
(***************************************************************************)
\* The place of feed f in the order of the query: 0 for updated_at NULL, else its
\* place in order, the refreshed feeds oldest first.
Rank(f, nulls, order) ==
    IF f \in nulls THEN 0 ELSE CHOOSE i \in 1..Len(order) : order[i] = f

\* fs holds min(N, limit) distinct feeds of the store, most overdue first, and no
\* feed left out is more overdue than one of fs.
MostOverdueFirst(fs, limit, nulls, order) ==
    LET all == nulls \cup Range(order)
    IN /\ Len(fs) = Min(Cardinality(all), limit)
       /\ Range(fs) \subseteq all
       /\ \A i, j \in 1..Len(fs) : i < j =>
             /\ fs[i] # fs[j]
             /\ Rank(fs[i], nulls, order) <= Rank(fs[j], nulls, order)
       /\ \A g \in all \ Range(fs) : \A i \in 1..Len(fs) :
             Rank(fs[i], nulls, order) <= Rank(g, nulls, order)

\* C5: a tick whose query succeeds takes min(N, W) feeds, W the worker count at the
\* time of the query whatever the capacity of the queue, most overdue first (the
\* never refreshed ones, then ascending updated_at), and sends them to the queue
\* one by one in that order, returning to its select only after the last.
C5_TickEnqueuesMostOverdue ==
    /\ [](tc.pc = "enqueue" =>
             /\ tc.idx \in 1..Len(tc.feeds)
             /\ Len(tc.feeds) = Min(Cardinality(feeds), tc.limit)
             /\ MostOverdueFirst(tc.feeds, tc.limit, tc.nulls, tc.order))
    /\ [][(tc.pc = "select" /\ tc'.pc = "enqueue") =>
             /\ tc'.limit = workers
             /\ tc'.idx = 1
             /\ MostOverdueFirst(tc'.feeds, workers, feeds \ Range(refreshed), refreshed)
             /\ jobs' = jobs]_vars
    /\ [][(tc.pc = "enqueue" /\ tc' # tc) =>
             /\ jobs' = Append(jobs, tc.feeds[tc.idx])
             /\ IF tc.idx < Len(tc.feeds)
                THEN tc' = [tc EXCEPT !.idx = tc.idx + 1]
                ELSE tc'.pc = "select"]_vars
    /\ [][(tc.pc = "select" /\ tc'.pc = "select") => Len(jobs') <= Len(jobs)]_vars

\* C5 witness: a tick is sending the second of two feeds, a never refreshed one
\* before a refreshed one, with a worker count above the queue's capacity.
C5_Witness ==
    /\ tc.pc = "enqueue"
    /\ tc.idx = 2
    /\ tc.limit > jobsCap
    /\ tc.feeds[1] \in tc.nulls
    /\ tc.feeds[2] \in Range(tc.order)

(***************************************************************************)
(* The claims about a worker's task.                                       *)
(***************************************************************************)
\* The step is one of worker w.
StepOf(w) == wk'[w] # wk[w]

\* The entry worker w is at.
Entry(w) == wk[w].items[wk[w].idx]

\* Worker w is past the last entry of its feed, before the closing update.
AtStamp(w) == wk[w].pc = "item" /\ wk[w].idx > Len(wk[w].items)

\* C6: the store never holds two articles for one (feed, link), under every
\* interleaving of the workers, and an insert of a stored pair changes nothing.
C6_OneArticlePerLink ==
    /\ [](\A f \in FeedIds, l \in Links : articles[f, l] <= 1)
    /\ [][\A w \in Chans :
            (wk[w].pc = "insert" /\ StepOf(w) /\ articles[wk[w].feed, Entry(w).link] > 0)
            => /\ articles' = articles
               /\ refreshed' = refreshed
               /\ feeds' = feeds]_vars

\* C6 witness: a worker is about to insert an entry that another worker, on the
\* same feed, stored after this one's existence check.
C6_Witness ==
    \E w \in Chans :
        /\ wk[w].pc = "insert"
        /\ articles[wk[w].feed, Entry(w).link] = 1
        /\ \E v \in Chans \ {w} : wk[v].feed = wk[w].feed /\ wk[v].pc \in {"item", "insert"}

\* C7: a worker whose fetch fails writes nothing to the store, neither then nor
\* before its next claim, does not return, and is back at its select, where its
\* next step is a claim.
C7_FetchFailureAbandons ==
    /\ [][\A w \in Chans :
            (wk[w].pc = "fetch" /\ StepOf(w) /\ wk'[w].pc # "item")
            => /\ wk'[w].pc = "failed"
               /\ wk'[w].log = <<"Error fetching/parsing feed">>
               /\ articles' = articles
               /\ refreshed' = refreshed
               /\ jobs' = jobs]_vars
    /\ [][\A w \in Chans :
            (wk[w].pc = "failed" /\ StepOf(w))
            => /\ wk'[w].pc = "select"
               /\ articles' = articles
               /\ refreshed' = refreshed
               /\ jobs' = jobs]_vars
    /\ [][\A w \in Chans :
            (wk[w].pc = "select" /\ StepOf(w) /\ wk'[w].pc # "exited")
            => /\ wk'[w].pc = "fetch"
               /\ wk'[w].feed = Head(jobs)
               /\ jobs' = Tail(jobs)]_vars

\* C7 witness: a fetch has failed for a never refreshed feed whose entries could
\* have been stored, while the next item waits in the queue.
C7_Witness ==
    \E w \in Chans :
        /\ wk[w].pc = "failed"
        /\ wk[w].log = <<"Error fetching/parsing feed">>
        /\ wk[w].feed \notin Range(refreshed)
        /\ Len(remote[wk[w].feed]) > 0
        /\ Len(jobs) > 0

\* The publish dates of the model that some layout of parsePubDate accepts.
DateOk(s) == s = "Tue, 20 Aug 2024 10:20:30 GMT"

\* The articles table after one more row for (f, l).
OneMore(f, l) == [articles EXCEPT ![f, l] = articles[f, l] + 1]

\* C8 as stated: whatever happened to the entries, the step that ends the task
\* stamps the feed.
C8_AlwaysStamped ==
    [][\A w \in Chans :
         (AtStamp(w) /\ StepOf(w)) => refreshed' = Append(Remove(refreshed, wk[w].feed), wk[w].feed)]_vars

\* C8 as amended: every entry is handled by itself (one log line each, the next
\* entry after it): an entry with an unparseable date is skipped, one whose pair is
\* stored is skipped, an insert adds one row for the entry's pair or fails and adds
\* none; after the last entry the worker issues the closing update once, whatever
\* the entries' lines, and the update stamps the feed unless the store fails the
\* update itself, which is logged and stamps nothing.  Nothing else stamps a feed.
C8_EntriesThenOneUpdate ==
    /\ [](\A w \in Chans : wk[w].pc \in {"item", "insert"} =>
             /\ Len(wk[w].log) = wk[w].idx - 1
             /\ wk[w].idx <= Len(wk[w].items) + 1
             /\ \A i \in 1..Len(wk[w].log) :
                   /\ wk[w].log[i] = "Error parsing pubDate" <=> ~DateOk(wk[w].items[i].pubDate)
                   /\ wk[w].log[i] \in {"Inserted article", "Article already exists"}
                         => articles[wk[w].feed, wk[w].items[i].link] = 1)
    /\ [][\A w \in Chans :
            (wk[w].pc = "item" /\ ~AtStamp(w) /\ StepOf(w))
            => /\ articles' = articles
               /\ refreshed' = refreshed
               /\ IF wk'[w].pc = "insert"
                  THEN /\ DateOk(Entry(w).pubDate)
                       /\ articles[wk[w].feed, Entry(w).link] = 0
                       /\ wk'[w].idx = wk[w].idx
                  ELSE /\ wk'[w].pc = "item"
                       /\ wk'[w].idx = wk[w].idx + 1]_vars
    /\ [][\A w \in Chans :
            (wk[w].pc = "insert" /\ StepOf(w))
            => /\ wk'[w].pc = "item"
               /\ wk'[w].idx = wk[w].idx + 1
               /\ refreshed' = refreshed
               /\ IF wk'[w].log[wk[w].idx] = "Inserted article"
                  THEN articles' = OneMore(wk[w].feed, Entry(w).link)
                  ELSE articles' = articles]_vars
    /\ [][\A w \in Chans :
            (AtStamp(w) /\ StepOf(w))
            => /\ articles' = articles
               /\ \/ /\ wk'[w].pc = "select"
                     /\ refreshed' = Append(Remove(refreshed, wk[w].feed), wk[w].feed)
                  \/ /\ wk'[w].pc = "failed"
                     /\ wk'[w].log = Append(wk[w].log, "Error updating feed")
                     /\ refreshed' = refreshed]_vars
    /\ [][refreshed' # refreshed => \E w \in Chans : AtStamp(w) /\ StepOf(w)]_vars

\* C8 witness: a feed of one entry with a good date and one with an unparseable
\* date was processed to its end: the good entry is stored, the other is not, and
\* the feed is stamped.
C8_Witness ==
    /\ remote[1] = <<[link |-> "a", pubDate |-> "Tue, 20 Aug 2024 10:20:30 GMT"],
                     [link |-> "b", pubDate |-> "yesterday"]>>
    /\ articles[1, "a"] = 1
    /\ articles[1, "b"] = 0
    /\ refreshed = <<1>>
    /\ jobs = <<>>
    /\ \A w \in Started : wk[w].pc = "select"

(***************************************************************************)
(* The claims about set-interval.                                          *)
(***************************************************************************)
\* Connection h carries a set-interval command whose argument parsed.
IntervalParsed(h) ==
    /\ Len(conn[h].parts) = 2
    /\ conn[h].parts[1] = "set-interval"
    /\ ParseDuration(conn[h].parts[2]).ok

\* Inside the period change: a.interval may be written, the ticker not yet reset.
Changing(h) == conn[h].pc \in {"interval", "reset"}

\* C9: every set-interval whose argument parses, a zero or negative span included,
\* leaves the engine running and is answered with the old and the new period, and
\* the period is changed atomically: no second change runs inside the first, and
\* outside a change a.interval is the ticker's period.
C9_SetIntervalApplied ==
    /\ [](panicked = "none")
    /\ [](Cardinality({h \in Conns : Changing(h)}) <= 1)
    /\ []((phase = "running" /\ \A h \in Conns : ~Changing(h)) => ticker.period = interval)
    /\ [][\A h \in Conns :
            (conn[h].pc = "reset" /\ conn'[h] # conn[h])
            => /\ conn'[h].pc = "replied"
               /\ conn'[h].reply = <<"Interval of fetching feeds changed", conn[h].old, conn[h].n>>
               /\ ticker'.period = conn[h].n
               /\ interval' = conn[h].n]_vars

\* The tick consumer takes a tick from ticker.C.
TickTaken == tc.pc = "select" /\ ticker.C = 1 /\ ticker'.C = 0 /\ conn' = conn

\* C10: after a set-interval at time t with period P no tick is taken before t + P,
\* a tick that elapsed under the old period and was not yet taken included.
C10_NoTickBeforeNewPeriod ==
    [][TickTaken => (sinceReset = -1 \/ sinceReset >= ticker.period)]_vars

(***************************************************************************)
(* SpecControl: every kind of control line, on concurrent connections.     *)
(***************************************************************************)
ControlLines ==
    {<<"set-interval", "abc">>, <<"set-interval", "5">>, <<"set-interval", "2s">>,
     <<"set-workers", "abc">>, <<"set-workers", "0">>, <<"set-workers", "1">>,
     <<"set-workers", "3">>, <<"set-workers">>, <<"status", "now">>}

NextControl ==
    \/ Start
    \/ Scheduler
    \/ \E w \in Chans :
          \/ WorkerTask(w)
          \/ WorkerExit(w)
    \/ \E h \in Conns :
          \/ HandlerRead(h, ControlLines)
          \/ SetInterval(h)
          \/ TickerReset(h)
          \/ Resize(h)
          \/ HandlerClose(h)

SpecControl == Init /\ [][NextControl]_vars

(***************************************************************************)
(* The claims about the control protocol.                                  *)
(***************************************************************************)
\* The handler of connection h has read its line in this step.
ReadsLine(h) == conn[h].pc = "idle" /\ conn'[h].pc # "idle"

\* The error reply a control-input error must get, <<>> for a line without one.
ErrorReply(parts) ==
    CASE parts \in {<<"set-interval", "abc">>, <<"set-interval", "5">>} -> <<"Invalid duration">>
      [] parts = <<"set-workers", "abc">> -> <<"Invalid count">>
      [] parts = <<"set-workers", "0">> -> <<"Error resizing workers: workers must be at least 1">>
      [] OTHER -> <<>>

\* C11: a set-interval with an unparseable duration, a set-workers with a count
\* that is no integer and a set-workers with a count below 1 are each answered with
\* their error on the same connection, and the step changes neither the period
\* (a.interval, the ticker), nor the worker count, nor the tracked done channels,
\* nor the raised stop signals, nor the workers; the handler never enters the
\* period change or Resize.
C11_InputErrorsReplied ==
    /\ [][\A h \in Conns :
            (ReadsLine(h) /\ ErrorReply(conn'[h].parts) # <<>>)
            => /\ conn'[h].pc = "replied"
               /\ conn'[h].reply = ErrorReply(conn'[h].parts)
               /\ \A g \in Conns \ {h} : conn'[g] = conn[g]
               /\ interval' = interval
               /\ ticker' = ticker
               /\ workers' = workers
               /\ doneChans' = doneChans
               /\ closed' = closed
               /\ wk' = wk]_vars
    /\ [](\A h \in Conns : ErrorReply(conn[h].parts) # <<>> => ~Resizing(h))
    /\ [](\A h \in Conns :
            ErrorReply(conn[h].parts) # <<>> => conn[h].pc \notin {"interval", "reset"})

\* C11 witness: on a running engine one connection was told of its invalid count
\* and another of its invalid duration.
C11_Witness ==
    /\ Cardinality(Running) = 2
    /\ \E h, g \in Conns :
          /\ conn[h].pc = "replied"
          /\ conn[h].parts = <<"set-workers", "abc">>
          /\ conn[h].reply = <<"Invalid count">>
          /\ conn[g].pc = "replied"
          /\ conn[g].parts = <<"set-interval", "5">>
          /\ conn[g].reply = <<"Invalid duration">>

\* The line has fewer than two tokens, or its command is none of the two.
Ignored(parts) == Len(parts) < 2 \/ parts[1] \notin {"set-interval", "set-workers"}

\* C12: a line with fewer than two tokens or with an unknown command is not
\* answered: the connection is closed with nothing written, and the period, the
\* worker count, the tracked done channels and the queue are as before.
C12_IgnoredLinesSilent ==
    /\ [][\A h \in Conns :
            (ReadsLine(h) /\ Ignored(conn'[h].parts))
            => /\ conn'[h].pc = "closed"
               /\ conn'[h].reply = <<>>
               /\ interval' = interval
               /\ ticker' = ticker
               /\ workers' = workers
               /\ doneChans' = doneChans
               /\ closed' = closed
               /\ jobs' = jobs
               /\ jobsCap' = jobsCap]_vars
    /\ [](\A h \in Conns : Ignored(conn[h].parts) => conn[h].pc \in {"idle", "closed"})

\* C12 witness: a line of one token and a line with an unknown command were both
\* dropped by a running engine.
C12_Witness ==
    /\ phase = "running"
    /\ \E h, g \in Conns :
          /\ conn[h].pc = "closed" /\ conn[h].parts = <<"set-workers">>
          /\ conn[g].pc = "closed" /\ conn[g].parts = <<"status", "now">>

(***************************************************************************)
(* SpecStop: the engine from Start to the return of Stop.  Commands come   *)
(* one after the other while the engine runs, and the signal that makes    *)
(* handleFetch call Stop comes when no command is being handled.  Fetches, *)
(* store updates and store queries may fail.  Scheduling is as in SpecSeq; *)
(* a fetch in flight finishes, and Stop, once called, runs on.             *)
(***************************************************************************)
StopLines == {<<"set-workers", "1">>, <<"set-workers", "3">>}

HandlerReadRunning(h) ==
    /\ phase = "running"
    /\ \A g \in Conns : conn[g].pc \in {"idle", "closed"}
    /\ HandlerRead(h, StopLines)

StopAfterCommands ==
    /\ \A g \in Conns : conn[g].pc \in {"idle", "closed"}
    /\ Stop

WorkerStep(w) ==
    \/ WorkerClaim(w)
    \/ WorkerFetchFail(w)
    \/ WorkerContinue(w)
    \/ WorkerFetchOk(w)
    \/ WorkerStamp(w)
    \/ WorkerStampFail(w)

NextStop ==
    \/ Start
    \/ Scheduler
    \/ TickExit
    \/ \E w \in Chans :
          \/ WorkerStep(w)
          \/ WorkerExit(w)
    \/ \E h \in Conns :
          \/ HandlerReadRunning(h)
          \/ Resize(h)
          \/ HandlerClose(h)
    \/ StopAfterCommands
    \/ AcceptError

SpecStop ==
    /\ Init
    /\ [][NextStop]_vars
    /\ WF_vars(Start)
    /\ \A w \in Chans : WF_vars(WorkerStep(w)) /\ SF_vars(WorkerExit(w))
    /\ \A h \in Conns : WF_vars(Resize(h) \/ HandlerClose(h))
    /\ WF_vars(StopAfterCommands /\ phase # "running")

(***************************************************************************)
(* The claims about Stop and about what ends a goroutine.                  *)
(***************************************************************************)
\* Stop has been called and has not returned.
Stopping ==
    phase \in {"stop_ticker", "stop_jobs", "stop_range", "stop_dones", "stop_wait",
               "stop_listener", "stop_remove"}

\* C13: Stop, called once after a successful Start, returns in the end; until then
\* the process runs on and no worker leaves a task it holds; when Stop has returned
\* every started worker has exited, the listener is closed, the socket file is gone,
\* and no worker and no store row changes any more.
C13_StopDrainsAndReturns ==
    /\ []((Stopping /\ listener # "nil") => Alive)
    /\ [](phase = "stopped" => (Running = {} /\ listener = "closed" /\ ~sock))
    /\ [][\A w \in Chans : (Stopping /\ MidTask(w)) => wk'[w].pc # "exited"]_vars
    /\ [][phase = "stopped" => (wk' = wk /\ articles' = articles /\ refreshed' = refreshed)]_vars
    /\ (Stopping /\ listener # "nil") ~> (phase = "stopped")

\* C15: the queue is not closed while the tick consumer can still send: the tick
\* consumer is never at its send with the queue closed, and no send on the closed
\* queue ends the process.
C15_NoSendOnClosedQueue ==
    /\ [](~(jobsClosed /\ tc.pc = "enqueue"))
    /\ [](panicked # "send on closed channel")

\* C16: a worker that is at its select with its done channel closed or the context
\* cancelled takes no further item: its next step is its return.
C16_SignalledWorkerTakesNothing ==
    [][\A w \in Chans :
         (wk[w].pc = "select" /\ (w \in closed \/ ctxDone) /\ StepOf(w))
         => wk'[w].pc = "exited"]_vars

\* C17: on the closed listener the accept loop ends with the first error of Accept:
\* it makes no second failing call.
C17_AcceptLoopEnds == [](acceptErrs <= 1)

\* The tick consumer takes a tick and enqueues nothing for it.
QuerySkipped ==
    /\ tc.pc = "select"
    /\ ticker.C = 1
    /\ ticker'.C = 0
    /\ phase' = phase
    /\ conn' = conn
    /\ tc'.pc # "enqueue"

\* C18: a worker returns only from its select and only with its done channel closed
\* or the context cancelled, and the tick consumer only from its select with the
\* context cancelled; after a logged error a worker is back at its select; a tick
\* whose query fails leaves the queue as it is and the tick consumer at its
\* select, where the next tick is taken.
C18_ErrorsEndNoGoroutine ==
    /\ [][\A w \in Chans :
            (wk[w].pc # "exited" /\ wk'[w].pc = "exited")
            => (wk[w].pc = "select" /\ (w \in closed \/ ctxDone))]_vars
    /\ [][(tc.pc # "exited" /\ tc'.pc = "exited") => (tc.pc = "select" /\ ctxDone)]_vars
    /\ [][\A w \in Chans : (wk[w].pc = "failed" /\ StepOf(w)) => wk'[w].pc = "select"]_vars
    /\ [][QuerySkipped => (jobs' = jobs /\ tc' = tc)]_vars
    /\ []((Alive /\ tc.pc = "select" /\ ticker.C = 1) => ENABLED TickQuery)

\* C18 witness: one worker has returned after its stop signal while another, not
\* signalled, has just logged the failure of its closing update, and a tick waits
\* to be taken.
C18_Witness ==
    /\ ~ctxDone
    /\ tc.pc = "select"
    /\ ticker.C = 1
    /\ \E w, v \in Chans :
          /\ wk[w].pc = "exited"
          /\ wk[v].pc = "failed"
          /\ wk[v].log = <<"Error updating feed">>
          /\ v \notin closed

(***************************************************************************)
(* SpecIdle: an engine over an empty store, whose Start binds the control  *)
(* socket or fails to, and the Stop that follows.  No tick enqueues a      *)
(* feed, so nothing but Start and Stop themselves decides how Stop ends.   *)
(***************************************************************************)
InitIdle == NewAggregator({1, 2, 3}, 1..MaxPeriod, {{}}, {<<>>}, BOOLEAN)

IdleWorkerStep(w) ==
    \/ WorkerClaim(w)
    \/ WorkerFetchFail(w)
    \/ WorkerContinue(w)

NextIdle ==
    \/ Start
    \/ StartUnbound
    \/ TimePasses
    \/ TickQuery
    \/ TickExit
    \/ \E w \in Chans :
          \/ IdleWorkerStep(w)
          \/ WorkerExit(w)
    \/ Stop
    \/ AcceptError

SpecIdle ==
    /\ InitIdle
    /\ [][NextIdle]_vars
    /\ \A w \in Chans : WF_vars(IdleWorkerStep(w)) /\ SF_vars(WorkerExit(w))
    /\ WF_vars(Stop /\ phase \notin {"running", "unbound"})

\* C20: after a Start that returned the error of net.Listen, Stop runs to its end:
\* the process runs on, Stop returns, and then every started worker has exited.
C20_StopAfterUnboundStart ==
    /\ [](listener = "nil" => Alive)
    /\ []((listener = "nil" /\ phase = "stopped") => Running = {})
    /\ (listener = "nil" /\ Stopping) ~> (phase = "stopped")

(***************************************************************************)
(* handleFetch, run by the processes of Procs on one machine.  Of an       *)
(* engine only its listener matters here: the socket file at sockPath and  *)
(* whether the listener that made it is open.                              *)
(***************************************************************************)
engineVars == <<aggVars, jobVars, phase, ctxDone, listener, sock, asyncTimer, stopRange,
                acceptErrs, ticker, panicked, tc, wk, conn, storeVars, sinceReset>>

\* net.Dial("unix", sockPath) succeeds when the file is the socket of an open listener.
Dial == sockFile \in bound

\* _, err := net.Dial(...): "already running" and return, or go on.
FetchDial(p) ==
    /\ inst[p] = "idle"
    /\ inst' = [inst EXCEPT ![p] = IF Dial THEN "refused" ELSE "checked"]
    /\ UNCHANGED <<engineVars, sockFile, bound>>

\* os.Remove(sockPath)
FetchRemove(p) ==
    /\ inst[p] = "checked"
    /\ inst' = [inst EXCEPT ![p] = "cleaned"]
    /\ sockFile' = NoFile
    /\ UNCHANGED <<engineVars, bound>>

\* agg.Start: net.Listen binds when no file is at the path, and fails otherwise,
\* upon which handleFetch exits.
FetchListen(p) ==
    /\ inst[p] = "cleaned"
    /\ IF sockFile = NoFile
       THEN /\ inst' = [inst EXCEPT ![p] = "running"]
            /\ sockFile' = p
            /\ bound' = bound \cup {p}
       ELSE /\ inst' = [inst EXCEPT ![p] = "failed"]
            /\ UNCHANGED <<sockFile, bound>>
    /\ UNCHANGED engineVars

\* The signal, and agg.Stop: a.listener.Close() and os.Remove(a.sockPath) both
\* unlink whatever is at the path.
FetchStop(p) ==
    /\ inst[p] = "running"
    /\ inst' = [inst EXCEPT ![p] = "stopped"]
    /\ sockFile' = NoFile
    /\ bound' = bound \ {p}
    /\ UNCHANGED engineVars

\* The process dies without Stop: its listener is gone, its socket file stays.
FetchCrash(p) ==
    /\ inst[p] = "running"
    /\ inst' = [inst EXCEPT ![p] = "crashed"]
    /\ sockFile' = IF sockFile = p THEN StaleFile ELSE sockFile
    /\ bound' = bound \ {p}
    /\ UNCHANGED engineVars

NextFetch ==
    \E p \in Procs :
        \/ FetchDial(p)
        \/ FetchRemove(p)
        \/ FetchListen(p)
        \/ FetchStop(p)
        \/ FetchCrash(p)

SpecFetch == Init /\ [][NextFetch]_vars

\* The instances that are running.
Instances == {p \in Procs : inst[p] = "running"}

\* C14: at most one instance runs at a time; a fetch that begins while an instance
\* holds its listener refuses to start; and the socket file of a running instance
\* is removed by no other process.
C14_SingleInstance ==
    /\ [](Cardinality(Instances) <= 1)
    /\ [][\A p \in Procs :
            (inst[p] = "idle" /\ inst'[p] # "idle" /\ bound # {}) => inst'[p] = "refused"]_vars
    /\ [][\A q \in Instances :
            (sockFile = q /\ sockFile' # q) => inst'[q] # "running"]_vars

(***************************************************************************)
(* SpecPool: Start, set-workers commands on concurrent connections, and    *)
(* one Stop, called at any moment, over an empty store: the pool of        *)
(* workers and nothing else.                                               *)
(***************************************************************************)
PoolLines == {<<"set-workers", "1">>, <<"set-workers", "3">>}

InitPool == NewAggregator({2}, {1}, {{}}, {<<>>}, {FALSE})

NextPool ==
    \/ Start
    \/ \E w \in Chans :
          \/ IdleWorkerStep(w)
          \/ WorkerExit(w)
    \/ \E h \in Conns :
          \/ HandlerRead(h, PoolLines)
          \/ Resize(h)
          \/ HandlerClose(h)
    \/ Stop

SpecPool == InitPool /\ [][NextPool]_vars

\* C19: no done channel is closed twice; whenever no Resize is running on a
\* started engine the worker count is the number of tracked done channels; and
\* every running worker is tracked or has its done channel closed.
C19_PoolInvariants ==
    /\ [](panicked # "close of closed channel")
    /\ []((phase # "new" /\ \A h \in Conns : ~Resizing(h)) => workers = doneChans.len)
    /\ [](\A w \in Running : w \in Tracked \/ w \in closed)

=============================================================================
